---- MODULE Spec2Model ----
(***************************************************************************)
(* Selection engine of tags_selector: ArtistSelector (artists_selector.py) *)
(* and CharacterSelector (character_selector.py).                          *)
(*                                                                         *)
(* One selector instance is modelled.                                      *)
(*   kind      which class the instance is (main.py 13-16)                 *)
(*   df        artists_df / characters_df, the loaded CSV as a sequence of *)
(*             rows (_load_csv); never changed after construction          *)
(*   config    the selector's section of self.config (__init__,            *)
(*             update_config): a record of the keys the section holds      *)
(*   used      _used_artists / _used_characters                            *)
(*   hasUsed   whether that attribute exists yet (hasattr)                 *)
(*   returned  observer only: the triggers returned by only-mode calls     *)
(*             since the last reset() or exhaustion of the eligible pool   *)
(*   calls     observer only: the number of only-mode calls that returned  *)
(*             normally since the used-set was last emptied; -1 where the  *)
(*             observer does not count (every specification but SpecFixed) *)
(*   pc, last  the caller (main.py 18-41): between operations ("idle"), or *)
(*             holding the value of the last operation ("returned"); last  *)
(*             records that operation: its resolved arguments, its random  *)
(*             draws, its outcome, and the used-set it started from.       *)
(*             "failed": the constructor raised and there is no selector   *)
(*   frames    the only-mode calls of two concurrent callers, statement by *)
(*             statement (SpecThreads)                                     *)
(*   locking   whether those callers wrap a call in a lock of their own    *)
(*   lock      the callers holding that lock                               *)
(*                                                                         *)
(* In every specification but SpecThreads, select_*() and reset_used_*()   *)
(* are one atomic step each.  Weights are integers in thousandths; counts  *)
(* are naturals.  The core_tags payload of a character row is passed       *)
(* through unchanged by the code and is not modelled.  The errors the code *)
(* raises itself are all ValueError; the outcome names say which raise     *)
(* statement it came from.  "KeyError" is the dict lookup of a key the     *)
(* configuration does not hold.                                            *)
(***************************************************************************)
EXTENDS Integers, Sequences, FiniteSets, TLC

\* ------------------------------------------------------------------ bounds
MaxRows == 2            \* rows of an artist dataset; triggers are 1..MaxRows
MaxCharacterRows == 1   \* rows of a character dataset (its rows hold more fields)
MaxWeight == 10         \* largest min_weight / max_weight, in thousandths

VARIABLES kind, df, config, used, hasUsed, returned, calls, pc, last,
          frames, locking, lock

vars == <<kind, df, config, used, hasUsed, returned, calls, pc, last,
          frames, locking, lock>>

\* ----------------------------------------------------------------- values
Triggers == 1..MaxRows
Works == 0..1               \* count and solo_count of a row, and the thresholds
Copyrights == 1..2
Modes == {"random", "only", "other"}
Threads == {"t1", "t2"}

\* An omitted argument (None) is <<>>, a passed one is <<v>>.
None == <<>>
Opt(S) == {None} \cup {<<v>> : v \in S}

Min(a, b) == IF a < b THEN a ELSE b

SeqsUpTo(S, n) == UNION {[1..m -> S] : m \in 0..n}

\* the rows a dataset of a domain may hold: as many trigger values as the
\* dataset may have rows
ArtistRows(D) == [trigger : 1..D.artistRows, count : D.rowWorks]

CharacterRows(D) ==
    [trigger : 1..D.characterRows, count : D.rowWorks, solo_count : D.rowWorks,
     copyright : Copyrights]

\* required_config of the two constructors
RequiredArtistConfig ==
    {"min_count", "max_count", "min_weight", "max_weight", "min_works"}

RequiredCharacterConfig ==
    {"min_count", "max_count", "min_weight", "max_weight",
     "min_total_works", "min_solo_works"}

\* The values one specification explores: the works a row holds (rowWorks),
\* the rows of a dataset, the values
\* passed as arguments (counts .. modes), the values the configuration holds
\* (cfgCounts .. cfgModes), the keys a loaded configuration may lack,
\* where the observer's count starts, and whether concurrent callers lock.
\* SelDomain explores the selection and the used-set: datasets, counts,
\* thresholds and filters; the configuration holds 0 for every number and the
\* arguments override it with the other values.
SelDomain ==
    [rowWorks |-> Works, artistRows |-> MaxRows, characterRows |-> MaxCharacterRows,
     counts |-> 1..MaxRows, weights |-> {}, works |-> Works \ {0},
     filters |-> SUBSET {1}, modes |-> {},
     cfgCounts |-> {0}, cfgWorks |-> {0}, cfgModes |-> Modes,
     absent |-> {}, calls |-> {-1}, locking |-> {FALSE}]

\* ArgDomain explores the handling of the arguments: weights, passed modes
\* and invalid ranges, on datasets of at most one row.
ArgDomain ==
    [rowWorks |-> Works, artistRows |-> 1, characterRows |-> 1,
     counts |-> {1}, weights |-> 1..MaxWeight, works |-> {},
     filters |-> {}, modes |-> Modes,
     cfgCounts |-> {0}, cfgWorks |-> {0}, cfgModes |-> Modes,
     absent |-> {}, calls |-> {-1}, locking |-> {FALSE}]

\* CatalogDomain explores the copyright catalog: character datasets of up to
\* MaxRows rows, calls without arguments.
CatalogDomain ==
    [rowWorks |-> Works, artistRows |-> 1, characterRows |-> MaxRows,
     counts |-> {}, weights |-> {}, works |-> {},
     filters |-> {}, modes |-> {},
     cfgCounts |-> {1}, cfgWorks |-> {0}, cfgModes |-> Modes,
     absent |-> {}, calls |-> {-1}, locking |-> {FALSE}]

\* ConfigDomain explores configurations that lack keys.
ConfigDomain ==
    [rowWorks |-> Works, artistRows |-> 1, characterRows |-> 1,
     counts |-> {1}, weights |-> {}, works |-> {},
     filters |-> {}, modes |-> {},
     cfgCounts |-> {1}, cfgWorks |-> {0}, cfgModes |-> Modes,
     absent |-> RequiredArtistConfig \cup RequiredCharacterConfig \cup {"mode"},
     calls |-> {-1}, locking |-> {FALSE}]

\* FixedDomain explores calls without arguments in only mode: the parameters
\* are those of the configuration, which is not reloaded.
FixedDomain ==
    [rowWorks |-> Works, artistRows |-> MaxRows, characterRows |-> MaxCharacterRows,
     counts |-> {}, weights |-> {}, works |-> {},
     filters |-> {}, modes |-> {},
     cfgCounts |-> 0..MaxRows, cfgWorks |-> Works, cfgModes |-> {"only"},
     absent |-> {}, calls |-> {0}, locking |-> {FALSE}]

\* ModeDomain explores calls without arguments under a configuration that
\* is reloaded between calls, the mode included.
ModeDomain ==
    [rowWorks |-> Works, artistRows |-> MaxRows, characterRows |-> MaxCharacterRows,
     counts |-> {}, weights |-> {}, works |-> {},
     filters |-> {}, modes |-> {},
     cfgCounts |-> 1..2, cfgWorks |-> Works, cfgModes |-> Modes,
     absent |-> {}, calls |-> {-1}, locking |-> {FALSE}]

\* ThreadDomain explores two concurrent callers in only mode, with and
\* without a lock of their own, on datasets whose rows are all eligible.
ThreadDomain ==
    [rowWorks |-> {0}, artistRows |-> MaxRows, characterRows |-> 1,
     counts |-> {}, weights |-> {}, works |-> {},
     filters |-> {}, modes |-> {},
     cfgCounts |-> 1..2, cfgWorks |-> {0}, cfgModes |-> {"only"},
     absent |-> {}, calls |-> {-1}, locking |-> BOOLEAN]

\* a configuration section with every key
ArtistConfigs(D) ==
    [min_count : D.cfgCounts, max_count : D.cfgCounts,
     min_weight : {0}, max_weight : {0},
     min_works : D.cfgWorks, mode : D.cfgModes]

CharacterConfigs(D) ==
    [min_count : D.cfgCounts, max_count : D.cfgCounts,
     min_weight : {0}, max_weight : {0},
     min_total_works : D.cfgWorks, min_solo_works : D.cfgWorks,
     mode : D.cfgModes]

\* a dict without the keys K
Without(c, K) == IF K = {} THEN c ELSE [key \in DOMAIN c \ K |-> c[key]]

\* what yaml.safe_load can hand over as the selector's section: any of the
\* sections above, without some of the keys (without all: no section)
LoadedConfigs(D, k) ==
    LET full == IF k = "artist" THEN ArtistConfigs(D) ELSE CharacterConfigs(D)
    IN  {Without(c, K) : c \in full, K \in SUBSET D.absent}

ArtistArgs(D) ==
    [min_count : Opt(D.counts), max_count : Opt(D.counts),
     min_weight : Opt(D.weights), max_weight : Opt(D.weights),
     min_works : Opt(D.works), mode : Opt(D.modes)]

CharacterArgs(D) ==
    [min_count : Opt(D.counts), max_count : Opt(D.counts),
     min_weight : Opt(D.weights), max_weight : Opt(D.weights),
     min_total_works : Opt(D.works), min_solo_works : Opt(D.works),
     copyright_filter : Opt(D.filters), mode : Opt(D.modes)]

\* ------------------------------------------------------- pure operations
\* `x if x is not None else default`
Resolve(arg, default) == IF arg = None THEN default ELSE arg[1]

\* mutant: the upper end is one too far
RandInt_Wide(a, b) == a..(b + 1)

\* random.randint(a, b): any integer of a..b
RandInt(a, b) == a..b

\* random.uniform(a, b) = a + (b - a) * random() with random() in [0, 1): a
\* value of [a, b), or a itself when a = b.  A grid value x below b stands for
\* the draws of [x, x + 1) thousandths.
Uniform(a, b) == IF a = b THEN {a} ELSE a..(b - 1)

\* mutant: the weight is not rounded
Round2_None(x) == {x}

\* round(x, 2) of a draw x, in thousandths: down below the half, up above it.
\* The draw that is exactly half way between two hundredths goes to either,
\* as the binary float nearest to it decides (round(0.005, 2) = 0.01,
\* round(1.005, 2) = 1.0); the draws just above it go up.
Round2(x) ==
    LET r == x % 10
        lo == x - r
    IN  IF r < 5 THEN {lo} ELSE IF r > 5 THEN {lo + 10} ELSE {lo, lo + 10}

\* the values  round(random.uniform(min_weight, max_weight), 2)  can take
DrawWeight(min_weight, max_weight) ==
    UNION {Round2(x) : x \in Uniform(min_weight, max_weight)}

\* DataFrame.sample(n): n distinct rows of `rows`, in any order
Sample(rows, n) ==
    {s \in [1..n -> rows] : \A i, j \in 1..n : i # j => s[i] # s[j]}

\* artists_df[artists_df['count'] >= min_works], as row numbers
ValidArtists(min_works) == {i \in DOMAIN df : df[i].count >= min_works}

\* mutant: the solo_count threshold is forgotten
ValidCharacters_NoSolo(min_total_works, min_solo_works, copyright_filter) ==
    LET byWorks == {i \in DOMAIN df : df[i].count >= min_total_works}
    IN  IF copyright_filter # None /\ copyright_filter[1] # {}
        THEN {i \in byWorks : df[i].copyright \in copyright_filter[1]}
        ELSE byWorks

\* the character filter: both thresholds, then the copyright filter when the
\* list is given and not empty
ValidCharacters(min_total_works, min_solo_works, copyright_filter) ==
    LET byWorks == {i \in DOMAIN df : /\ df[i].count >= min_total_works
                                      /\ df[i].solo_count >= min_solo_works}
    IN  IF copyright_filter # None /\ copyright_filter[1] # {}
        THEN {i \in byWorks : df[i].copyright \in copyright_filter[1]}
        ELSE byWorks

\* mutant: the used triggers are not filtered out
NotUsed_All(rows, u) == rows

\* rows[~rows['trigger'].isin(used)]
NotUsed(rows, u) == {i \in rows : df[i].trigger \notin u}

TokensOf(rows) == {df[i].trigger : i \in rows}

\* mutant: only the first drawn trigger is taken
SelectedTokens_First(sel) == IF sel = <<>> THEN {} ELSE {df[sel[1]].trigger}

\* the triggers of the drawn rows
SelectedTokens(sel) == {df[sel[i]].trigger : i \in DOMAIN sel}

\* some trigger occurs at two positions of the selection
HasRepeat(sel) ==
    \E i, j \in DOMAIN sel : i # j /\ df[sel[i]].trigger = df[sel[j]].trigger


\* ------------------------------------------------- the copyright catalog
\* the sum of `count` over the first n rows whose copyright is c
RECURSIVE SumCount(_, _)
SumCount(c, n) ==
    IF n = 0 THEN 0
    ELSE SumCount(c, n - 1) + (IF df[n].copyright = c THEN df[n].count ELSE 0)

\* characters_df.groupby('copyright')['count'].sum(): one entry for each
\* copyright of the dataset
CopyrightCounts ==
    [c \in {df[i].copyright : i \in DOMAIN df} |-> SumCount(c, Len(df))]

\* copyright_counts[copyright_counts >= min_total_works].index.tolist(): the
\* keys that are left, as a list
ValidCopyrights(min_total_works) ==
    LET keys == {c \in DOMAIN CopyrightCounts : CopyrightCounts[c] >= min_total_works}
    IN  CHOOSE s \in [1..Cardinality(keys) -> keys] : {s[i] : i \in DOMAIN s} = keys

\* x put into the ascending list s, before the first entry above it
RECURSIVE Insert(_, _)
Insert(x, s) ==
    IF s = <<>> THEN <<x>>
    ELSE IF x <= Head(s) THEN <<x>> \o s
    ELSE <<Head(s)>> \o Insert(x, Tail(s))

\* sorted(list)
RECURSIVE Sorted(_)
Sorted(s) == IF s = <<>> THEN <<>> ELSE Insert(Head(s), Sorted(Tail(s)))

\* ------------------------------------------------------------ the state
NoCall == [op |-> "none"]

\* a caller of SpecThreads that is not inside a call
IdleFrame == [pc |-> "idle"]

TypeOK ==
    /\ kind \in {"artist", "character"}
    /\ pc \in {"idle", "returned", "failed"}
    /\ used \subseteq Triggers
    /\ hasUsed \in BOOLEAN
    /\ returned \subseteq Triggers
    /\ calls \in -1..(MaxRows + 1)
    /\ locking \in BOOLEAN
    /\ lock \subseteq Threads
    /\ DOMAIN frames = Threads

\* __init__: the constructor raises unless the section holds every key of
\* required_config
ConfigAccepted(k, cfg) ==
    IF k = "artist" THEN RequiredArtistConfig \subseteq DOMAIN cfg
                    ELSE RequiredCharacterConfig \subseteq DOMAIN cfg

InitD(D) ==
    /\ kind \in {"artist", "character"}
    /\ df \in IF kind = "artist" THEN SeqsUpTo(ArtistRows(D), D.artistRows)
                                 ELSE SeqsUpTo(CharacterRows(D), D.characterRows)
    /\ config \in LoadedConfigs(D, kind)
    /\ used = {}
    /\ hasUsed = FALSE
    /\ returned = {}
    /\ calls \in D.calls
    /\ pc = IF ConfigAccepted(kind, config) THEN "idle" ELSE "failed"
    /\ last = NoCall
    /\ frames = [t \in Threads |-> IdleFrame]
    /\ locking \in D.locking
    /\ lock = {}

\* ----------------------------------------------------------- select()
\* What a call leaves behind: the call record, the used-set, and the
\* observer's variables (which the code does not hold).
Finish(call, outcome, sel, ws, u, has, ret, n) ==
    /\ last' = [call EXCEPT !.outcome = outcome, !.selected = sel, !.weights = ws]
    /\ used' = u
    /\ hasUsed' = has
    /\ returned' = ret
    /\ calls' = n
    /\ pc' = "returned"
    /\ UNCHANGED <<kind, df, config, frames, locking, lock>>

Call(op, p, args) ==
    [op |-> op, mode |-> config.mode, mode_arg |-> args.mode, p |-> p,
     usedBefore |-> used, hadUsed |-> hasUsed, returnedBefore |-> returned,
     callsBefore |-> calls,
     outcome |-> "", selected |-> <<>>, weights |-> <<>>]

\* the record of a call that stopped at a lookup in the configuration
CallNoConfig(op, args) ==
    [op |-> op, mode |-> "", mode_arg |-> args.mode, p |-> args,
     usedBefore |-> used, hadUsed |-> hasUsed, returnedBefore |-> returned,
     callsBefore |-> calls,
     outcome |-> "", selected |-> <<>>, weights |-> <<>>]

\* the keys select_*() looks up in the configuration: those of the omitted
\* arguments, and mode
KeysRead(args, keys) == {key \in keys : args[key] = None} \cup {"mode"}

\* mutant: the weight range is not validated
ValidParameters_CountsOnly(p) == ~(p.min_count > p.max_count)

\* min_count > max_count and min_weight > max_weight both raise
ValidParameters(p) ==
    /\ ~(p.min_count > p.max_count)
    /\ ~(p.min_weight > p.max_weight)

\* mutant: the used-set is not cleared on exhaustion
UsedAfterCheck_NoClear(all, u) == u

\* mutant: on exhaustion only the eligible triggers are forgotten
UsedAfterCheck_KeepOthers(all, u) ==
    IF NotUsed(all, u) = {} THEN u \ TokensOf(all) ELSE u

\* the used-set after the exhaustion check: cleared when no eligible row is
\* left unused
UsedAfterCheck(all, u) == IF NotUsed(all, u) = {} THEN {} ELSE u

\* mutant: exhaustion is not resolved, nothing is left to draw from
RowsToDraw_NoRefill(all, u) == NotUsed(all, u)

\* the rows the only mode draws from: the unused eligible rows, or all
\* eligible rows when none is left unused
RowsToDraw(all, u) == IF NotUsed(all, u) = {} THEN all ELSE NotUsed(all, u)

\* the observer's variable: emptied when every eligible token has been
\* returned since it was last emptied
ReturnedAfterCheck(all, ret) == IF TokensOf(all) \subseteq ret THEN {} ELSE ret

\* the observer's count when the used-set is emptied
CallsCleared(n) == IF n < 0 THEN n ELSE 0

\* the observer's count of a call that returns normally: it restarts when the
\* call emptied the used-set (counting stops above MaxRows)
CallsAfter(all, u, n) ==
    IF n < 0 THEN n
    ELSE IF NotUsed(all, u) = {} THEN 1 ELSE Min(n + 1, MaxRows + 1)

\* mutant: the draw avoids the used triggers in random mode too
SelectRandom_AvoidsUsed(call, p, all) ==
    IF ~ValidParameters(p)
    THEN Finish(call, "InvalidParameterError", <<>>, <<>>, used, hasUsed, returned, calls)
    ELSE IF all = {}
    THEN Finish(call, "NoEligibleRecordsError", <<>>, <<>>, used, hasUsed, returned, calls)
    ELSE \E k \in RandInt(p.min_count, p.max_count) :
           LET count == Min(k, Cardinality(RowsToDraw(all, used))) IN
           \E sel \in Sample(RowsToDraw(all, used), count) :
           \E ws \in [1..count -> DrawWeight(p.min_weight, p.max_weight)] :
              Finish(call, "ok", sel, ws, used, hasUsed, returned, calls)

\* _select_artists_random / _select_characters_random on the eligible rows
SelectRandom(call, p, all) ==
    IF ~ValidParameters(p)
    THEN Finish(call, "InvalidParameterError", <<>>, <<>>, used, hasUsed, returned, calls)
    ELSE IF all = {}
    THEN Finish(call, "NoEligibleRecordsError", <<>>, <<>>, used, hasUsed, returned, calls)
    ELSE \E k \in RandInt(p.min_count, p.max_count) :
           LET count == Min(k, Cardinality(all)) IN
           \E sel \in Sample(all, count) :
           \E ws \in [1..count -> DrawWeight(p.min_weight, p.max_weight)] :
              Finish(call, "ok", sel, ws, used, hasUsed, returned, calls)

\* mutant: the used-set is created anew by every call, not only when the
\* attribute is missing
SelectOnly_Recreates(call, p, all) ==
    IF ~ValidParameters(p)
    THEN Finish(call, "InvalidParameterError", <<>>, <<>>, {}, TRUE, {},
                CallsCleared(calls))
    ELSE IF all = {}
    THEN Finish(call, "NoEligibleRecordsError", <<>>, <<>>, {}, TRUE, {},
                CallsCleared(calls))
    ELSE \E k \in RandInt(p.min_count, p.max_count) :
           LET count == Min(k, Cardinality(all)) IN
           \E sel \in Sample(all, count) :
           \E ws \in [1..count -> DrawWeight(p.min_weight, p.max_weight)] :
              Finish(call, "ok", sel, ws, SelectedTokens(sel), TRUE,
                     SelectedTokens(sel), CallsAfter({}, {}, calls))

\* _select_artists_only / _select_characters_only on the eligible rows
SelectOnly(call, p, all) ==
    IF ~ValidParameters(p)
    THEN Finish(call, "InvalidParameterError", <<>>, <<>>, used, TRUE, returned, calls)
    ELSE LET u == UsedAfterCheck(all, used)
             valid == RowsToDraw(all, used)
             ret == ReturnedAfterCheck(all, returned)
         IN  IF valid = {}
             THEN Finish(call, "NoEligibleRecordsError", <<>>, <<>>, u, TRUE, ret,
                         CallsCleared(calls))
             ELSE \E k \in RandInt(p.min_count, p.max_count) :
                    LET count == Min(k, Cardinality(valid)) IN
                    \E sel \in Sample(valid, count) :
                    \E ws \in [1..count -> DrawWeight(p.min_weight, p.max_weight)] :
                       Finish(call, "ok", sel, ws, u \cup SelectedTokens(sel), TRUE,
                              ret \cup SelectedTokens(sel),
                              CallsAfter(all, used, calls))

\* mutant: a passed mode overrides the configured one
Dispatch_OnArgument(call, p, all) ==
    LET mode == Resolve(call.mode_arg, config.mode)
    IN  IF mode = "random" THEN SelectRandom(call, p, all)
        ELSE IF mode = "only" THEN SelectOnly(call, p, all)
        ELSE Finish(call, "InvalidModeError", <<>>, <<>>, used, hasUsed, returned, calls)

\* the dispatch of select_artists / select_characters on the configured mode
Dispatch(call, p, all) ==
    IF config.mode = "random" THEN SelectRandom(call, p, all)
    ELSE IF config.mode = "only" THEN SelectOnly(call, p, all)
    ELSE Finish(call, "InvalidModeError", <<>>, <<>>, used, hasUsed, returned, calls)

\* the parameters of a call: the arguments, else the configured values
ArtistParameters(args) ==
    [min_count |-> Resolve(args.min_count, config.min_count),
     max_count |-> Resolve(args.max_count, config.max_count),
     min_weight |-> Resolve(args.min_weight, config.min_weight),
     max_weight |-> Resolve(args.max_weight, config.max_weight),
     min_works |-> Resolve(args.min_works, config.min_works)]

CharacterParameters(args) ==
    [min_count |-> Resolve(args.min_count, config.min_count),
     max_count |-> Resolve(args.max_count, config.max_count),
     min_weight |-> Resolve(args.min_weight, config.min_weight),
     max_weight |-> Resolve(args.max_weight, config.max_weight),
     min_total_works |-> Resolve(args.min_total_works, config.min_total_works),
     min_solo_works |-> Resolve(args.min_solo_works, config.min_solo_works),
     copyright_filter |-> args.copyright_filter]

select_artists(args) ==
    IF ~(KeysRead(args, RequiredArtistConfig) \subseteq DOMAIN config)
    THEN Finish(CallNoConfig("select_artists", args), "KeyError", <<>>, <<>>,
                used, hasUsed, returned, calls)
    ELSE LET p == ArtistParameters(args)
             all == ValidArtists(p.min_works)
         IN  Dispatch(Call("select_artists", p, args), p, all)

select_characters(args) ==
    IF ~(KeysRead(args, RequiredCharacterConfig) \subseteq DOMAIN config)
    THEN Finish(CallNoConfig("select_characters", args), "KeyError", <<>>, <<>>,
                used, hasUsed, returned, calls)
    ELSE LET p == CharacterParameters(args)
             all == ValidCharacters(p.min_total_works, p.min_solo_works,
                                    p.copyright_filter)
         IN  Dispatch(Call("select_characters", p, args), p, all)

\* ------------------------------------------------------------- reset()
\* mutant: reset leaves the set as it is
ResetUsed_Keep(u, has) == u

\* reset_used_artists / reset_used_characters: clear the set if it exists
ResetUsed(u, has) == IF has THEN {} ELSE u

reset_used(op) ==
    /\ pc = "idle"
    /\ used' = ResetUsed(used, hasUsed)
    /\ returned' = {}
    /\ calls' = CallsCleared(calls)
    /\ last' = [op |-> op, usedBefore |-> used, hadUsed |-> hasUsed,
                dfBefore |-> df, configBefore |-> config]
    /\ pc' = "returned"
    /\ UNCHANGED <<kind, df, config, hasUsed, frames, locking, lock>>

reset_used_artists == kind = "artist" /\ reset_used("reset_used_artists")

reset_used_characters == kind = "character" /\ reset_used("reset_used_characters")

\* ----------------------------------------------- get_available_copyrights
\* mutant: the works of a copyright are not summed, its largest row counts
CatalogOf_Largest(min_total_works) ==
    LET keys == {df[i].copyright : i \in DOMAIN df}
        ok == {c \in keys : \E i \in DOMAIN df : /\ df[i].copyright = c
                                                  /\ df[i].count >= min_total_works}
    IN  Sorted(CHOOSE s \in [1..Cardinality(ok) -> ok] : {s[i] : i \in DOMAIN s} = ok)

\* the value get_available_copyrights returns
CatalogOf(min_total_works) == Sorted(ValidCopyrights(min_total_works))

get_available_copyrights(min_total_works) ==
    /\ kind = "character"
    /\ pc = "idle"
    /\ last' = [op |-> "get_available_copyrights",
                min_total_works |-> min_total_works,
                result |-> CatalogOf(min_total_works),
                usedBefore |-> used, hadUsed |-> hasUsed]
    /\ pc' = "returned"
    /\ UNCHANGED <<kind, df, config, used, hasUsed, returned, calls,
                   frames, locking, lock>>

\* --------------------------------------------------------- update_config
\* self.config = load_config('config.yaml'): whatever the file holds now
update_config(D) ==
    /\ pc = "idle"
    /\ config' \in LoadedConfigs(D, kind)
    /\ UNCHANGED <<kind, df, used, hasUsed, returned, calls, pc, last,
                   frames, locking, lock>>

\* ------------------------------------------------------------ the caller
\* main(): the returned value is printed and the loop takes the next command
main_loop ==
    /\ pc = "returned"
    /\ pc' = "idle"
    /\ last' = NoCall
    /\ UNCHANGED <<kind, df, config, used, hasUsed, returned, calls,
                   frames, locking, lock>>

NextD(D) ==
    \/ kind = "artist" /\ pc = "idle" /\ \E args \in ArtistArgs(D) : select_artists(args)
    \/ kind = "character" /\ pc = "idle"
          /\ \E args \in CharacterArgs(D) : select_characters(args)
    \/ reset_used_artists
    \/ reset_used_characters
    \/ \E t \in 0..MaxRows : get_available_copyrights(t)
    \/ update_config(D)
    \/ main_loop

Init == InitD(SelDomain)
Next == NextD(SelDomain)
Spec == Init /\ [][Next]_vars

InitArgs == InitD(ArgDomain)
NextArgs == NextD(ArgDomain)
SpecArgs == InitArgs /\ [][NextArgs]_vars

\* the copyright catalog on larger character datasets
InitCatalog == InitD(CatalogDomain)
NextCatalog == NextD(CatalogDomain)
SpecCatalog == InitCatalog /\ [][NextCatalog]_vars

\* configurations that lack keys
InitConfig == InitD(ConfigDomain)
NextConfig == NextD(ConfigDomain)
SpecConfig == InitConfig /\ [][NextConfig]_vars

\* only mode with the parameters of a configuration that is never reloaded:
\* main() without the reload
InitFixed == InitD(FixedDomain)

NextFixed ==
    \/ kind = "artist" /\ pc = "idle"
          /\ \E args \in ArtistArgs(FixedDomain) : select_artists(args)
    \/ kind = "character" /\ pc = "idle"
          /\ \E args \in CharacterArgs(FixedDomain) : select_characters(args)
    \/ reset_used_artists
    \/ reset_used_characters
    \/ main_loop

SpecFixed == InitFixed /\ [][NextFixed]_vars

\* calls without arguments under a configuration that main() reloads, with
\* either mode, before each round
InitModes == InitD(ModeDomain)

NextModes ==
    \/ kind = "artist" /\ pc = "idle"
          /\ \E args \in ArtistArgs(ModeDomain) : select_artists(args)
    \/ kind = "character" /\ pc = "idle"
          /\ \E args \in CharacterArgs(ModeDomain) : select_characters(args)
    \/ update_config(ModeDomain)
    \/ main_loop

SpecModes == InitModes /\ [][NextModes]_vars

\* ------------------------------------------------- concurrent callers
\* Two callers inside the only mode of one selector, statement by statement.
\* Each statement that reads or writes self._used_* is a step of its own;
\* the statements between two of them are local to the caller and go with
\* the step before.  A caller that locks takes the lock before it enters
\* select_*() and gives it back when the call returns or raises.
\*
\* A frame holds the caller's position and its locals: the parameters, the
\* eligible rows (all), the rows to draw from (valid), whether the call
\* cleared the used-set (exhausted), the drawn rows and weights, how many of
\* them the result loop has handled (added), and, for the observer, the
\* triggers this call recorded (own) and those among them that another call
\* had returned since the used-set was last emptied (clash).
Frame(at, p, all, valid, exhausted, sel, ws, outcome) ==
    [pc |-> at, p |-> p, all |-> all, valid |-> valid, exhausted |-> exhausted,
     selected |-> sel, weights |-> ws, added |-> 0, own |-> {}, clash |-> {},
     outcome |-> outcome]

\* the frame variables a step of caller t leaves alone
ThreadFrame == UNCHANGED <<kind, df, config, pc, last, locking>>

\* select_*() is entered and dispatches to the only mode, whose first
\* statement tests hasattr(self, '_used_*')
only_enter(t) ==
    /\ frames[t].pc = "idle"
    /\ locking => lock = {}
    /\ config.mode = "only"
    /\ \E p \in IF kind = "artist"
                THEN {ArtistParameters(a) : a \in ArtistArgs(ThreadDomain)}
                ELSE {CharacterParameters(a) : a \in CharacterArgs(ThreadDomain)} :
          frames' = [frames EXCEPT ![t] =
                        Frame(IF hasUsed THEN "check" ELSE "create",
                              p, {}, {}, FALSE, <<>>, <<>>, "")]
    /\ lock' = IF locking THEN {t} ELSE lock
    /\ UNCHANGED <<used, hasUsed, returned, calls>>
    /\ ThreadFrame

\* self._used_* = set()
only_create(t) ==
    /\ frames[t].pc = "create"
    /\ used' = {}
    /\ hasUsed' = TRUE
    /\ frames' = [frames EXCEPT ![t].pc = "check"]
    /\ UNCHANGED <<returned, calls, lock>>
    /\ ThreadFrame

\* the parameter checks, the eligibility filter and the rows whose trigger is
\* not in the used-set
only_filter(t) ==
    /\ frames[t].pc = "check"
    /\ LET f == frames[t]
           all == IF kind = "artist"
                  THEN ValidArtists(f.p.min_works)
                  ELSE ValidCharacters(f.p.min_total_works, f.p.min_solo_works,
                                       f.p.copyright_filter)
       IN  IF ~ValidParameters(f.p)
           THEN /\ frames' = [frames EXCEPT ![t].pc = "returned",
                                            ![t].outcome = "InvalidParameterError"]
                /\ lock' = lock \ {t}
           ELSE /\ frames' = [frames EXCEPT ![t].pc = "filtered",
                                            ![t].all = all,
                                            ![t].valid = NotUsed(all, used)]
                /\ lock' = lock
    /\ UNCHANGED <<used, hasUsed, returned, calls>>
    /\ ThreadFrame

\* the exhaustion check, the emptiness check and the draw
only_draw(t) ==
    /\ frames[t].pc = "filtered"
    /\ LET f == frames[t]
           exhausted == f.valid = {}
           valid == IF exhausted THEN f.all ELSE f.valid
       IN  /\ used' = IF exhausted THEN {} ELSE used
           /\ returned' = IF exhausted THEN {} ELSE returned
           /\ calls' = IF exhausted THEN CallsCleared(calls) ELSE calls
           /\ IF valid = {}
              THEN /\ frames' = [frames EXCEPT ![t].pc = "returned",
                                               ![t].exhausted = exhausted,
                                               ![t].outcome = "NoEligibleRecordsError"]
                   /\ lock' = lock \ {t}
              ELSE /\ \E k \in RandInt(f.p.min_count, f.p.max_count) :
                         LET count == Min(k, Cardinality(valid)) IN
                         \E sel \in Sample(valid, count) :
                         \E ws \in [1..count -> DrawWeight(f.p.min_weight, f.p.max_weight)] :
                            frames' = [frames EXCEPT ![t].pc = "drawn",
                                                     ![t].valid = valid,
                                                     ![t].exhausted = exhausted,
                                                     ![t].selected = sel,
                                                     ![t].weights = ws]
                   /\ lock' = lock
    /\ UNCHANGED hasUsed
    /\ ThreadFrame

\* one round of the result loop: self._used_*.add(trigger)
only_record(t) ==
    /\ frames[t].pc = "drawn"
    /\ frames[t].added < Len(frames[t].selected)
    /\ LET f == frames[t]
           trigger == df[f.selected[f.added + 1]].trigger
       IN  /\ used' = used \cup {trigger}
           /\ returned' = returned \cup {trigger}
           /\ frames' = [frames EXCEPT
                            ![t].added = f.added + 1,
                            ![t].own = f.own \cup {trigger},
                            ![t].clash = f.clash \cup ({trigger} \cap (returned \ f.own))]
    /\ UNCHANGED <<hasUsed, calls, lock>>
    /\ ThreadFrame

\* return result
only_return(t) ==
    /\ frames[t].pc = "drawn"
    /\ frames[t].added = Len(frames[t].selected)
    /\ frames' = [frames EXCEPT ![t].pc = "returned", ![t].outcome = "ok"]
    /\ calls' = IF calls < 0 THEN calls ELSE Min(calls + 1, MaxRows + 1)
    /\ lock' = lock \ {t}
    /\ UNCHANGED <<used, hasUsed, returned>>
    /\ ThreadFrame

\* the caller takes the value and is free to call again
caller_next(t) ==
    /\ frames[t].pc = "returned"
    /\ frames' = [frames EXCEPT ![t] = IdleFrame]
    /\ UNCHANGED <<used, hasUsed, returned, calls, lock>>
    /\ ThreadFrame

InitThreads == InitD(ThreadDomain)

NextThreads ==
    \E t \in Threads :
        \/ only_enter(t)
        \/ only_create(t)
        \/ only_filter(t)
        \/ only_draw(t)
        \/ only_record(t)
        \/ only_return(t)
        \/ caller_next(t)

SpecThreads == InitThreads /\ [][NextThreads]_vars

\* ------------------------------------------------------------ the claims
\* The call record `last` is read while the caller holds the returned value.
IsSelect == pc = "returned" /\ last.op \in {"select_artists", "select_characters"}

IsReset == pc = "returned" /\ last.op \in {"reset_used_artists", "reset_used_characters"}

Succeeded == IsSelect /\ last.outcome = "ok"

InMode(m) == IsSelect /\ last.mode = m

ValidRanges ==
    /\ last.p.min_count <= last.p.max_count
    /\ last.p.min_weight <= last.p.max_weight

\* The eligibility predicate of the call, as the specification words it.
EligibleRow(i) ==
    IF last.op = "select_artists"
    THEN df[i].count >= last.p.min_works
    ELSE /\ df[i].count >= last.p.min_total_works
         /\ df[i].solo_count >= last.p.min_solo_works
         /\ \/ last.p.copyright_filter = None
            \/ last.p.copyright_filter[1] = {}
            \/ df[i].copyright \in last.p.copyright_filter[1]

EligibleRows == {i \in DOMAIN df : EligibleRow(i)}

EligibleTokens == {df[i].trigger : i \in EligibleRows}

\* eligible minus used, as the used-set stood when the call started
UnusedRows == {i \in EligibleRows : df[i].trigger \notin last.usedBefore}

\* the call found eligible-minus-used empty
FoundExhausted == UnusedRows = {}

\* the rows the call draws from
DrawnFrom ==
    IF last.mode = "only" /\ ~FoundExhausted THEN UnusedRows ELSE EligibleRows

ReturnedRows == {last.selected[i] : i \in DOMAIN last.selected}

ReturnedTokens == {df[i].trigger : i \in ReturnedRows}

NumReturned == Len(last.selected)

\* C1: in only mode, over the calls since the last reset(), no trigger is
\* returned twice until every eligible trigger has been returned: a successful
\* call returns no trigger twice, and none that was returned since the pool
\* was last exhausted, unless every eligible trigger has been.
C1_NoRepeatUntilExhausted ==
    Succeeded /\ last.mode = "only" =>
        /\ ~HasRepeat(last.selected)
        /\ \/ EligibleTokens \subseteq last.returnedBefore
           \/ ReturnedTokens \cap last.returnedBefore = {}

\* C2: a call with valid ranges that returns a result returns n records with
\* min_count <= n <= max_count and n <= the number of eligible records.
C2_CountWithinRange ==
    Succeeded /\ ValidRanges =>
        /\ last.p.min_count <= NumReturned
        /\ NumReturned <= last.p.max_count
        /\ NumReturned <= Cardinality(EligibleRows)

\* C2 as amended: n <= max_count, n <= the number a of records the call draws
\* from (a <= the number of eligible records), and n >= min(min_count, a).
C2_CountClamped ==
    Succeeded /\ ValidRanges =>
        /\ Min(last.p.min_count, Cardinality(DrawnFrom)) <= NumReturned
        /\ NumReturned <= last.p.max_count
        /\ NumReturned <= Cardinality(DrawnFrom)
        /\ Cardinality(DrawnFrom) <= Cardinality(EligibleRows)
        /\ Cardinality(ReturnedRows) = NumReturned

C2_Witness ==
    /\ Succeeded
    /\ ValidRanges
    /\ NumReturned < last.p.min_count
    /\ NumReturned = Cardinality(DrawnFrom)

\* C3: no trigger appears more than once in the result of one call.
C3_NoRepeatInResult == Succeeded => ~HasRepeat(last.selected)

\* C4: an only-mode call that finds eligible-minus-used empty while some row
\* is eligible clears the used-set, draws from all eligible rows and returns
\* normally; with two eligible rows and min_count = max_count = 2 every call
\* returns both and leaves exactly their triggers in the used-set.
C4_ExhaustionResolvedInCall ==
    /\ InMode("only") /\ ValidRanges /\ FoundExhausted /\ EligibleRows # {} =>
          /\ last.outcome = "ok"
          /\ ReturnedRows \subseteq EligibleRows
          /\ used = ReturnedTokens
    /\ InMode("only") /\ ValidRanges /\ Cardinality(EligibleRows) = 2
          /\ last.p.min_count = 2 /\ last.p.max_count = 2
          /\ (FoundExhausted \/ UnusedRows = EligibleRows) =>
          /\ last.outcome = "ok"
          /\ ReturnedRows = EligibleRows
          /\ EligibleTokens \subseteq used

C4_Witness ==
    /\ InMode("only") /\ last.outcome = "ok"
    /\ Cardinality(EligibleRows) = 2 /\ Cardinality(EligibleTokens) = 2
    /\ last.p.min_count = 2 /\ last.p.max_count = 2
    /\ last.usedBefore = EligibleTokens
    /\ used = EligibleTokens

\* C5: with valid ranges, a random or only call fails with
\* NoEligibleRecordsError exactly when no row is eligible, and returns
\* normally otherwise.
C5_NoEligibleIffNoneEligible ==
    (InMode("random") \/ InMode("only")) /\ ValidRanges =>
        /\ last.outcome = "NoEligibleRecordsError" <=> EligibleRows = {}
        /\ last.outcome = "ok" <=> EligibleRows # {}

C5_Witness ==
    /\ InMode("only") /\ last.outcome = "ok"
    /\ FoundExhausted
    /\ last.usedBefore # {}
    /\ ReturnedRows # {}

\* C6: a random or only call with min_count > max_count or
\* min_weight > max_weight fails with InvalidParameterError and returns
\* nothing, whatever the dataset, the thresholds and the used-set are.
C6_InvalidRangeRejected ==
    (InMode("random") \/ InMode("only")) /\ ~ValidRanges =>
        /\ last.outcome = "InvalidParameterError"
        /\ last.selected = <<>>

C6_Witness ==
    /\ InMode("only")
    /\ last.p.min_count <= last.p.max_count
    /\ last.p.min_weight > last.p.max_weight
    /\ EligibleRows = {}
    /\ last.outcome = "InvalidParameterError"

\* C7: reset() is possible whenever the caller is between operations, leaves
\* the used-set empty and the dataset and the configuration as they were; a
\* second reset() changes nothing.
C7_ResetClears ==
    /\ pc = "idle" => ENABLED (reset_used_artists \/ reset_used_characters)
    /\ IsReset =>
          /\ used = {}
          /\ df = last.dfBefore
          /\ config = last.configBefore
          /\ ResetUsed(used, hasUsed) = used

C7_Witness == IsReset /\ last.usedBefore # {} /\ used = {}

\* C8: every returned row is eligible for the call; in only mode it is not in
\* the used-set of the start of the call, unless the call found
\* eligible-minus-used empty.
C8_ReturnedAreEligible ==
    Succeeded =>
        /\ ReturnedRows \subseteq EligibleRows
        /\ last.mode = "only" /\ ~FoundExhausted =>
              ReturnedTokens \cap last.usedBefore = {}

C8_Witness ==
    /\ Succeeded /\ last.mode = "only"
    /\ ReturnedRows # {}
    /\ EligibleRows # DOMAIN df
    /\ last.usedBefore # {}
    /\ ~FoundExhausted

\* C9: every returned weight w has at most 2 decimal digits and
\* min_weight <= w <= max_weight.
C9_WeightsWithinBounds ==
    Succeeded =>
        \A i \in DOMAIN last.weights :
            /\ last.weights[i] % 10 = 0
            /\ last.p.min_weight <= last.weights[i]
            /\ last.weights[i] <= last.p.max_weight

\* C9 as amended: every returned weight w has at most 2 decimal digits and
\* min_weight - 0.005 <= w <= max_weight + 0.005; w >= min_weight when
\* min_weight has at most 2 decimal digits, w <= max_weight when max_weight
\* has.
C9_WeightsWithinRoundedBounds ==
    Succeeded =>
        \A i \in DOMAIN last.weights :
            /\ last.weights[i] % 10 = 0
            /\ last.p.min_weight - 5 <= last.weights[i]
            /\ last.weights[i] <= last.p.max_weight + 5
            /\ last.p.min_weight % 10 = 0 => last.p.min_weight <= last.weights[i]
            /\ last.p.max_weight % 10 = 0 => last.weights[i] <= last.p.max_weight

C9_Witness ==
    /\ Succeeded
    /\ \E i \in DOMAIN last.weights : last.weights[i] > last.p.max_weight
    /\ last.p.min_weight % 10 # 0

\* C10: the call behaves as the configured mode says, whatever mode is
\* passed: configured "random" leaves the used-set alone and draws from all
\* eligible rows; configured "only" records what it returns and draws from
\* the unused eligible rows; any other configured value fails with
\* InvalidModeError and leaves the used-set alone.
C10_DispatchOnConfiguredMode ==
    IsSelect =>
        /\ last.mode = config.mode
        /\ last.mode = "random" =>
              /\ last.outcome # "InvalidModeError"
              /\ used = last.usedBefore /\ hasUsed = last.hadUsed
        /\ last.mode = "only" =>
              /\ last.outcome # "InvalidModeError"
              /\ hasUsed
              /\ last.outcome = "ok" =>
                    /\ ReturnedTokens \subseteq used
                    /\ ReturnedRows \subseteq DrawnFrom
        /\ last.mode \notin {"random", "only"} =>
              /\ last.outcome = "InvalidModeError"
              /\ used = last.usedBefore /\ hasUsed = last.hadUsed

C10_Witness ==
    /\ IsSelect /\ last.outcome = "ok"
    /\ last.mode = "only" /\ last.mode_arg = <<"random">>
    /\ ReturnedTokens # {}
    /\ last.usedBefore = {}
    /\ used = ReturnedTokens

\* ------------------------------------------------- the copyright catalog
IsCatalog == pc = "returned" /\ last.op = "get_available_copyrights"

\* total_work_count summed over the given rows
RECURSIVE TotalWorks(_)
TotalWorks(rows) ==
    IF rows = {} THEN 0
    ELSE LET i == CHOOSE r \in rows : TRUE
         IN  df[i].count + TotalWorks(rows \ {i})

RowsOfCopyright(c) == {i \in DOMAIN df : df[i].copyright = c}

\* C11: available_copyrights(t) returns, in ascending order and without
\* duplicates, exactly the copyrights of the dataset whose records sum to at
\* least t works; the used-set is as it was, and the result is a function of
\* the dataset and t alone.
C11_CatalogExact ==
    IsCatalog =>
        /\ \A i, j \in DOMAIN last.result : i < j => last.result[i] < last.result[j]
        /\ {last.result[i] : i \in DOMAIN last.result}
             = {c \in Copyrights : /\ RowsOfCopyright(c) # {}
                                   /\ TotalWorks(RowsOfCopyright(c)) >= last.min_total_works}
        /\ used = last.usedBefore
        /\ hasUsed = last.hadUsed

C11_Witness ==
    /\ IsCatalog
    /\ last.usedBefore # {}
    /\ \E i \in DOMAIN last.result :
          /\ Cardinality(RowsOfCopyright(last.result[i])) > 1
          /\ \A r \in RowsOfCopyright(last.result[i]) :
                df[r].count < last.min_total_works

\* C12: the used-set starts empty and changes only in these ways: an
\* only-mode select() that finds eligible-minus-used non-empty leaves it grown
\* by exactly the triggers it returned (unchanged if it fails); it loses
\* entries only by reset() or by an only-mode select() that finds
\* eligible-minus-used empty.
C12_UsedSetChanges ==
    /\ used = {}
    /\ [][LET onlySelect == IsSelect' /\ last'.mode = "only"
              exhausted == FoundExhausted'
          IN  /\ onlySelect /\ ~exhausted =>
                    /\ used \subseteq used'
                    /\ last'.outcome = "ok" => used' = used \cup ReturnedTokens'
                    /\ last'.outcome # "ok" => used' = used
              /\ used' # used => IsReset' \/ onlySelect
              /\ ~(used \subseteq used') =>
                    \/ IsReset' /\ used' = {}
                    \/ onlySelect /\ exhausted
         ]_vars

C12_Witness ==
    /\ Succeeded /\ last.mode = "only"
    /\ ~FoundExhausted
    /\ last.usedBefore # {}
    /\ ReturnedTokens # {}
    /\ used = last.usedBefore \cup ReturnedTokens
    /\ used # last.usedBefore

\* ------------------------------------------------------- the random mode
\* the eligibility predicate for given parameters, as the specification
\* words it
EligibleFor(p) ==
    IF kind = "artist"
    THEN {i \in DOMAIN df : df[i].count >= p.min_works}
    ELSE {i \in DOMAIN df :
            /\ df[i].count >= p.min_total_works
            /\ df[i].solo_count >= p.min_solo_works
            /\ \/ p.copyright_filter = None
               \/ p.copyright_filter[1] = {}
               \/ df[i].copyright \in p.copyright_filter[1]}

\* What a random-mode call with parameters p may end as, <<outcome, rows,
\* weights>>, told from the dataset and p alone.
RandomResults(p) ==
    IF p.min_count > p.max_count \/ p.min_weight > p.max_weight
    THEN {<<"InvalidParameterError", <<>>, <<>>>>}
    ELSE IF EligibleFor(p) = {}
    THEN {<<"NoEligibleRecordsError", <<>>, <<>>>>}
    ELSE UNION {
           {<<"ok", sel, ws>> :
               sel \in {q \in [1..n -> EligibleFor(p)] :
                           \A i, j \in 1..n : i # j => q[i] # q[j]},
               ws \in [1..n -> DrawWeight(p.min_weight, p.max_weight)]} :
           n \in {Min(k, Cardinality(EligibleFor(p))) : k \in p.min_count..p.max_count}}

\* the call with arguments `args` can end as r
CanEndAs(args, r) ==
    ENABLED /\ \/ kind = "artist" /\ select_artists(args)
               \/ kind = "character" /\ select_characters(args)
            /\ last'.outcome = r[1]
            /\ last'.selected = r[2]
            /\ last'.weights = r[3]

\* C13: a random-mode select() leaves the used-set as it was, and what it can
\* return is told by the dataset and the parameters alone, whatever the
\* used-set holds from earlier only-mode calls.
C13_RandomIgnoresUsed ==
    /\ InMode("random") =>
          /\ used = last.usedBefore
          /\ hasUsed = last.hadUsed
          /\ <<last.outcome, last.selected, last.weights>> \in RandomResults(last.p)
    /\ pc = "idle" /\ config.mode = "random" =>
          \A args \in IF kind = "artist" THEN ArtistArgs(ModeDomain)
                                         ELSE CharacterArgs(ModeDomain) :
             \A r \in RandomResults(IF kind = "artist" THEN ArtistParameters(args)
                                                       ELSE CharacterParameters(args)) :
                CanEndAs(args, r)

C13_Witness ==
    /\ InMode("random") /\ last.outcome = "ok"
    /\ ReturnedTokens \cap last.usedBefore # {}
    /\ UnusedRows # {}
    /\ used = last.usedBefore

\* ------------------------------------------------------ failing calls
Failed ==
    /\ IsSelect
    /\ last.outcome \in {"InvalidParameterError", "NoEligibleRecordsError",
                         "InvalidModeError"}

\* C16: a select() call that fails leaves the used-set exactly as it was
\* before the call.
C16_FailureKeepsUsed == Failed => used = last.usedBefore

\* C16 as amended: a select() call that fails leaves the used-set as it was,
\* except an only-mode call that fails with NoEligibleRecordsError, which
\* leaves it empty.
C16_FailureKeepsUsedUnlessNoneEligible ==
    Failed =>
        IF last.mode = "only" /\ last.outcome = "NoEligibleRecordsError"
        THEN used = {}
        ELSE used = last.usedBefore

C16_Witness ==
    /\ Failed
    /\ last.mode = "only" /\ last.outcome = "NoEligibleRecordsError"
    /\ last.usedBefore # {}
    /\ used = {}

\* C18: after a successful only-mode select() that found
\* eligible-minus-used empty, the used-set holds exactly the triggers that
\* call returned, whatever it held before.
C18_OnlyReturnedAfterExhaustion ==
    Succeeded /\ last.mode = "only" /\ FoundExhausted => used = ReturnedTokens

C18_Witness ==
    /\ Succeeded /\ last.mode = "only" /\ FoundExhausted
    /\ \E t \in last.usedBefore : t \notin EligibleTokens /\ t \notin used
    /\ used = ReturnedTokens
    /\ used # {}

\* ------------------------------------------------- missing configuration
\* C15: the constructor rejects every configuration that lacks a key
\* select() reads, so a select() call on a constructed selector never stops
\* at the lookup of a missing configuration key.
C15_MissingKeysFatalAtConstruction == IsSelect => last.outcome # "KeyError"

\* ------------------------------------------ only mode, fixed parameters
\* C17: in only mode with the parameters held fixed and min_count >= 1, every
\* call that returns normally returns at least one trigger that is not in the
\* used-set, no trigger is returned twice between two emptyings of the
\* used-set, an automatic reset finds every eligible trigger returned, and it
\* comes after at most |eligible| such calls.
C17_EachEligibleOncePerCycle ==
    Succeeded /\ last.mode = "only" /\ last.p.min_count >= 1 =>
        /\ ~HasRepeat(last.selected)
        /\ ReturnedTokens # {}
        /\ FoundExhausted =>
              /\ last.returnedBefore = EligibleTokens
              /\ last.callsBefore <= Cardinality(EligibleRows)
        /\ ~FoundExhausted =>
              /\ ReturnedTokens \cap last.returnedBefore = {}
              /\ ReturnedTokens \cap last.usedBefore = {}
        /\ calls <= Cardinality(EligibleRows)

\* ------------------------------------------------- concurrent callers
InCall(t) == frames[t].pc \notin {"idle"}

FrameTokens(t) == {df[frames[t].selected[i]].trigger : i \in 1..frames[t].added}

\* C14: when every only-mode call runs under the callers' lock, from taking
\* the rows to draw from to recording the drawn triggers, no call records a
\* trigger that another call has returned since the used-set was last
\* emptied, and the calls do not overlap.
C14_LockedCallsDoNotRepeat ==
    locking =>
        /\ \A t \in Threads : InCall(t) => frames[t].clash = {}
        /\ \A t, u \in Threads :
              t # u /\ InCall(t) /\ InCall(u) =>
                 \/ frames[t].pc = "returned"
                 \/ frames[u].pc = "returned"

\* without the lock two overlapping calls both return a trigger while an
\* eligible trigger has not been returned at all and neither call found the
\* pool exhausted
C14_Witness ==
    /\ ~locking
    /\ \A t \in Threads : /\ frames[t].pc = "returned"
                          /\ frames[t].outcome = "ok"
                          /\ ~frames[t].exhausted
    /\ FrameTokens("t1") \cap FrameTokens("t2") # {}
    /\ \E t \in Threads : frames[t].clash # {}
    /\ \E i \in frames["t1"].all : df[i].trigger \notin used

====
